---- MODULE Spec2Model ----
(***************************************************************************)
(* Model of retry_async/api.py: the retry loops __retry_internal_sync and  *)
(* __retry_internal_async, and the entry points (retry_call_sync,          *)
(* retry_call_async, the decorators built by retry) that run them.         *)
(*                                                                         *)
(* One frame per in-flight call holds the loop's locals (_tries, _delay,   *)
(* the caught exception e) together with what the call has done so far to  *)
(* its collaborators: how often f was called and with which arguments,     *)
(* every time.sleep duration, the logger.warning calls, and how the call   *)
(* ended.                                                                  *)
(*                                                                         *)
(* Numbers are Python ints (exact arithmetic); float("inf") is kept apart  *)
(* from them, because inf - 1 = inf.                                       *)
(***************************************************************************)
EXTENDS Integers, Sequences, FiniteSets

\* ---------------------------------------------------------------- bounds
\* finite tries range over 1..MaxTries
MaxTries == 5
\* calls of f explored in one run (caps the unlimited loops)
MaxHits == 5
\* durations (delay, max_delay, fixed jitter) range up to MaxDur
MaxDur == 1
\* backoff ranges over 0..MaxBackoff
MaxBackoff == 2
\* concurrent calls in SpecConc
NumInv == 2

Invs == 1..NumInv

\* ------------------------------------------------- Python values and types
\* tries is an int or float("inf")
IntT(n) == [inf |-> FALSE, n |-> n]
InfT == [inf |-> TRUE, n |-> 0]

\* (variant: the tests written as `_tries > 0`)
Truthy_positive(t) == t.inf \/ t.n > 0

\* truth value of a number, as tested by `while _tries:` and `if not _tries:`
Truthy(t) == t.inf \/ t.n # 0

\* _tries -= 1
Dec(t) == IF t.inf THEN t ELSE [t EXCEPT !.n = @ - 1]

\* an optional value: None is <<>>, a value v is <<v>>
None == <<>>
Some(v) == <<v>>

\* jitter is a number <<j>> or a range tuple <<min, max>>
IsTuple(j) == Len(j) = 2

\* min(a, b)
min(a, b) == IF a <= b THEN a ELSE b

\* the values random.uniform(a, b) can return: a + (b - a) * random(),
\* which lies between a and b whichever is the larger
Uniform(a, b) == IF a <= b THEN a..b ELSE b..a

\* the exception classes that occur, with their base class
Base(c) ==
    CASE c = "ZeroDivisionError" -> "ArithmeticError"
      [] c = "ArithmeticError" -> "Exception"
      [] c = "ValueError" -> "Exception"
      [] c = "RuntimeError" -> "Exception"
      [] OTHER -> "BaseException"

RECURSIVE IsSubclass(_, _)
IsSubclass(c, d) ==
    IF c = d THEN TRUE
    ELSE IF c = "BaseException" THEN FALSE
    ELSE IsSubclass(Base(c), d)

\* (variant: a bare `except Exception`)
Matches_any(k, exceptions) == IsSubclass(k, "Exception")

\* `except exceptions as e` catches an exception of class k
Matches(k, exceptions) == \E c \in exceptions : IsSubclass(k, c)

\* an exception object: its class, who raised it, and during which attempt
Exc(k, src, n) == [kind |-> k, src |-> src, n |-> n]
NoExc == Exc("", "", 0)

\* how a call ended
NoResult == [tag |-> "none", val |-> "", exc |-> NoExc]
Returned(v) == [tag |-> "return", val |-> v, exc |-> NoExc]
Raised(x) == [tag |-> "raise", val |-> "", exc |-> x]

NoLog == [e |-> NoExc, delay |-> 0]

RECURSIVE SumSeq(_)
SumSeq(s) == IF s = <<>> THEN 0 ELSE s[1] + SumSeq(Tail(s))

\* ---------------------------------------------------------- environment
\* what f can do on one call
OpKinds == {"ZeroDivisionError", "ValueError"}
Values == {"3", "10"}
\* what logger.warning can do: return, or raise one of these
ObserverKinds == {"RuntimeError"}

\* the keyword arguments of retry / retry_call_*
Policies ==
    [is_async : BOOLEAN,
     exceptions : {{"Exception"}, {"ArithmeticError"}},
     tries : {IntT(n) : n \in (-2)..MaxTries} \cup {InfT},
     delay : (-1)..MaxDur,
     max_delay : {None} \cup {Some(m) : m \in 0..MaxDur},
     backoff : 0..MaxBackoff,
     jitter : {<<j>> : j \in 0..MaxDur} \cup {<<0, 1>>, <<1, 0>>},
     logger : {"None", "logging_logger"},
     fargs : {None},
     fkwargs : {None}]

\* ------------------------------------------------------------------ state
VARIABLES policy, callers, frames, env

vars == <<policy, callers, frames, env>>

\* partial(f, *args, **kwargs): the positional arguments as a sequence, the
\* keyword arguments as a set of <<name, value>> pairs
partial(args, kwargs) == [args |-> args, kwargs |-> kwargs]
NoPartial == partial(<<>>, {})

\* f(): the partial object called with no further arguments; what the
\* wrapped function receives
PartialCall(f) == [args |-> f.args \o <<>>, kwargs |-> f.kwargs \cup {}]

Frame0 ==
    [pc |-> "idle", _tries |-> IntT(0), _delay |-> 0, e |-> NoExc,
     hits |-> 0, waits |-> <<>>, logCount |-> 0, lastLog |-> NoLog,
     result |-> NoResult, f |-> NoPartial, calls |-> <<>>]

\* What the collaborators of one call have done, as they record it
\* themselves: the last exception f raised, the first one it raised of a
\* class outside `exceptions`, the value f returned and on which call, and
\* the class logger.warning raised ("" for none).
Env0 ==
    [raised |-> NoExc, fatal |-> NoExc, returned |-> "", returnedAt |-> 0,
     obsRaised |-> ""]

\* the policy designates the exception class k as one to retry on
Retryable(k) == \E c \in policy.exceptions : IsSubclass(k, c)

\* leaving the function with an exception
Propagate(fr, x) == [fr EXCEPT !.pc = "raised", !.result = Raised(x)]

\* ------------------------------------------- retry_call_sync / _async
\* args = fargs if fargs else list(); kwargs = fkwargs if fkwargs else dict()
\* partial(f, *args, **kwargs)
\* (the wrappers built by retry(...) have the same two lines and the same
\* partial, on the arguments of the decorated function's call)
retry_call_sync(p, fr) ==
    LET args == IF p.fargs = None THEN <<>>
                ELSE IF Len(p.fargs[1]) = 0 THEN <<>> ELSE p.fargs[1]
        kwargs == IF p.fkwargs = None THEN {}
                  ELSE IF p.fkwargs[1] = {} THEN {} ELSE p.fkwargs[1]
    IN [fr EXCEPT !.f = partial(args, kwargs)]

\* (variant: the keyword arguments are not passed on)
retry_call_async_positional(p, fr) ==
    LET args == IF p.fargs = None THEN <<>>
                ELSE IF Len(p.fargs[1]) = 0 THEN <<>> ELSE p.fargs[1]
    IN [fr EXCEPT !.f = partial(args, {})]

\* the same two lines and the same partial in retry_call_async
retry_call_async(p, fr) ==
    LET args == IF p.fargs = None THEN <<>>
                ELSE IF Len(p.fargs[1]) = 0 THEN <<>> ELSE p.fargs[1]
        kwargs == IF p.fkwargs = None THEN {}
                  ELSE IF p.fkwargs[1] = {} THEN {} ELSE p.fkwargs[1]
    IN [fr EXCEPT !.f = partial(args, kwargs)]

\* --------------------------------------------------- __retry_internal_sync
\* _tries, _delay = tries, delay
retry_internal_sync_init(p, fr) ==
    [fr EXCEPT !._tries = p.tries, !._delay = p.delay]

\* while _tries: try: return f()   -- up to the call of f
retry_internal_sync_loop(fr) ==
    IF Truthy(fr._tries)
    THEN [fr EXCEPT !.pc = "awaiting", !.hits = @ + 1,
                    !.calls = Append(@, PartialCall(fr.f))]
    ELSE [fr EXCEPT !.pc = "returned", !.result = Returned("None")]

\* return f()   -- f returned v
retry_internal_sync_return(fr, v) ==
    [fr EXCEPT !.pc = "returned", !.result = Returned(v)]

\* if logger is not None: logger.warning(..., e, _delay)
retry_internal_sync_warning(p, fr) ==
    IF p.logger # "None"
    THEN [fr EXCEPT !.logCount = @ + 1,
                    !.lastLog = [e |-> fr.e, delay |-> fr._delay]]
    ELSE fr

\* the logger call and time.sleep(_delay); obs is what logger.warning does
\* if it is called: "ok", or the class of the exception it raises.
\* time.sleep raises ValueError for a negative duration.
retry_internal_sync_retry(p, fr, obs) ==
    LET f1 == retry_internal_sync_warning(p, fr) IN
    IF p.logger # "None" /\ obs # "ok"
    THEN Propagate(f1, Exc(obs, "logger", fr.hits))
    ELSE IF f1._delay < 0
    THEN Propagate(f1, Exc("ValueError", "sleep", fr.hits))
    ELSE [f1 EXCEPT !.pc = "sleeping", !.waits = Append(@, f1._delay)]

\* f() raised the exception x: the except clause
retry_internal_sync_except(p, fr, x, obs) ==
    IF ~Matches(x.kind, p.exceptions) THEN Propagate(fr, x)
    ELSE
      LET f1 == [fr EXCEPT !.e = x, !._tries = Dec(@)] IN
      IF ~Truthy(f1._tries) THEN Propagate(f1, x)
      ELSE retry_internal_sync_retry(p, f1, obs)

\* time.sleep returned: the rest of the except clause, then the loop again;
\* u is what random.uniform(*jitter) returns if it is called
retry_internal_sync_resume(p, fr, u) ==
    LET d1 == fr._delay * p.backoff
        d2 == IF IsTuple(p.jitter) THEN d1 + u ELSE d1 + p.jitter[1]
        d3 == IF p.max_delay # None THEN min(d2, p.max_delay[1]) ELSE d2
    IN retry_internal_sync_loop([fr EXCEPT !._delay = d3])

\* -------------------------------------------------- __retry_internal_async
\* (variant: _tries and _delay live in the decorator's closure, so a call
\* goes on from where a call already under way has got to)
retry_internal_async_init_shared(p, fr) ==
    LET started == {j \in Invs : frames[j].pc # "idle"} IN
    IF started = {}
    THEN [fr EXCEPT !._tries = p.tries, !._delay = p.delay]
    ELSE LET o == frames[CHOOSE j \in started : TRUE] IN
         [fr EXCEPT !._tries = o._tries, !._delay = o._delay]

\* (variant: the loop sleeps before its first attempt as well)
retry_internal_async_init_sleeping(p, fr) ==
    [fr EXCEPT !._tries = p.tries, !._delay = p.delay, !.waits = <<p.delay>>]

\* _tries, _delay = tries, delay
retry_internal_async_init(p, fr) ==
    [fr EXCEPT !._tries = p.tries, !._delay = p.delay]

\* (variant: the loop test written as `while _tries > 0`)
retry_internal_async_loop_positive(fr) ==
    IF fr._tries.inf \/ fr._tries.n > 0
    THEN [fr EXCEPT !.pc = "awaiting", !.hits = @ + 1,
                    !.calls = Append(@, PartialCall(fr.f))]
    ELSE [fr EXCEPT !.pc = "returned", !.result = Returned("None")]

\* while _tries: try: return await f()   -- up to the await
retry_internal_async_loop(fr) ==
    IF Truthy(fr._tries)
    THEN [fr EXCEPT !.pc = "awaiting", !.hits = @ + 1,
                    !.calls = Append(@, PartialCall(fr.f))]
    ELSE [fr EXCEPT !.pc = "returned", !.result = Returned("None")]

\* (variant: `await f()` without the return, so the loop goes round again)
retry_internal_async_return_dropped(fr, v) ==
    retry_internal_async_loop(fr)

\* return await f()   -- f returned v
retry_internal_async_return(fr, v) ==
    [fr EXCEPT !.pc = "returned", !.result = Returned(v)]

\* (variant: the logger is given the argument `delay`, not the local `_delay`)
retry_internal_async_warning_arg(p, fr) ==
    IF p.logger # "None"
    THEN [fr EXCEPT !.logCount = @ + 1,
                    !.lastLog = [e |-> fr.e, delay |-> p.delay]]
    ELSE fr

\* if logger is not None: logger.warning(..., e, _delay)
retry_internal_async_warning(p, fr) ==
    IF p.logger # "None"
    THEN [fr EXCEPT !.logCount = @ + 1,
                    !.lastLog = [e |-> fr.e, delay |-> fr._delay]]
    ELSE fr

\* (variant: the async loop sleeps without calling the logger)
retry_internal_async_retry_silent(p, fr, obs) ==
    IF fr._delay < 0
    THEN Propagate(fr, Exc("ValueError", "sleep", fr.hits))
    ELSE [fr EXCEPT !.pc = "sleeping", !.waits = Append(@, fr._delay)]

\* (variant: an exception of the logger is swallowed)
retry_internal_async_retry_quiet(p, fr, obs) ==
    LET f1 == retry_internal_async_warning(p, fr) IN
    IF f1._delay < 0
    THEN Propagate(f1, Exc("ValueError", "sleep", fr.hits))
    ELSE [f1 EXCEPT !.pc = "sleeping", !.waits = Append(@, f1._delay)]

\* the logger call and time.sleep(_delay); obs is what logger.warning does
\* if it is called: "ok", or the class of the exception it raises.
\* time.sleep raises ValueError for a negative duration.
retry_internal_async_retry(p, fr, obs) ==
    LET f1 == retry_internal_async_warning(p, fr) IN
    IF p.logger # "None" /\ obs # "ok"
    THEN Propagate(f1, Exc(obs, "logger", fr.hits))
    ELSE IF f1._delay < 0
    THEN Propagate(f1, Exc("ValueError", "sleep", fr.hits))
    ELSE [f1 EXCEPT !.pc = "sleeping", !.waits = Append(@, f1._delay)]

\* (variant: the except clause without `_tries -= 1`)
retry_internal_async_except_undecremented(p, fr, x, obs) ==
    IF ~Matches(x.kind, p.exceptions) THEN Propagate(fr, x)
    ELSE
      LET f1 == [fr EXCEPT !.e = x] IN
      IF ~Truthy(f1._tries) THEN Propagate(f1, x)
      ELSE retry_internal_async_retry(p, f1, obs)

\* (variant: the budget is tested before it is decremented)
retry_internal_async_except_late(p, fr, x, obs) ==
    IF ~Matches(x.kind, p.exceptions) THEN Propagate(fr, x)
    ELSE
      IF ~Truthy(fr._tries) THEN Propagate(fr, x)
      ELSE retry_internal_async_retry(p, [fr EXCEPT !.e = x, !._tries = Dec(@)], obs)

\* await f() raised the exception x: the except clause
retry_internal_async_except(p, fr, x, obs) ==
    IF ~Matches(x.kind, p.exceptions) THEN Propagate(fr, x)
    ELSE
      LET f1 == [fr EXCEPT !.e = x, !._tries = Dec(@)] IN
      IF ~Truthy(f1._tries) THEN Propagate(f1, x)
      ELSE retry_internal_async_retry(p, f1, obs)

\* (variant: `_delay += backoff` for `_delay *= backoff`)
retry_internal_async_resume_plus(p, fr, u) ==
    LET d1 == fr._delay + p.backoff
        d2 == IF IsTuple(p.jitter) THEN d1 + u ELSE d1 + p.jitter[1]
        d3 == IF p.max_delay # None THEN min(d2, p.max_delay[1]) ELSE d2
    IN retry_internal_async_loop([fr EXCEPT !._delay = d3])

\* (variant: max_delay is never applied)
retry_internal_async_resume_uncapped(p, fr, u) ==
    LET d1 == fr._delay * p.backoff
        d2 == IF IsTuple(p.jitter) THEN d1 + u ELSE d1 + p.jitter[1]
    IN retry_internal_async_loop([fr EXCEPT !._delay = d2])

\* (variant: the jitter is added to the argument `delay`, not accumulated)
retry_internal_async_resume_flat(p, fr, u) ==
    LET d1 == p.delay * p.backoff
        d2 == IF IsTuple(p.jitter) THEN d1 + u ELSE d1 + p.jitter[1]
        d3 == IF p.max_delay # None THEN min(d2, p.max_delay[1]) ELSE d2
    IN retry_internal_async_loop([fr EXCEPT !._delay = d3])

\* (variant: max_delay is applied before the jitter is added)
retry_internal_async_resume_capfirst(p, fr, u) ==
    LET d1 == fr._delay * p.backoff
        d2 == IF p.max_delay # None THEN min(d1, p.max_delay[1]) ELSE d1
        d3 == IF IsTuple(p.jitter) THEN d2 + u ELSE d2 + p.jitter[1]
    IN retry_internal_async_loop([fr EXCEPT !._delay = d3])

\* time.sleep returned: the rest of the except clause, then the loop again
retry_internal_async_resume(p, fr, u) ==
    LET d1 == fr._delay * p.backoff
        d2 == IF IsTuple(p.jitter) THEN d1 + u ELSE d1 + p.jitter[1]
        d3 == IF p.max_delay # None THEN min(d2, p.max_delay[1]) ELSE d2
    IN retry_internal_async_loop([fr EXCEPT !._delay = d3])

\* ------------------------------------------------------------- scheduling
\* The async calls are tasks of one event loop and share its thread; each
\* sync call runs on its caller's own thread.
SameThread(i, j) == policy.is_async

\* time.sleep blocks the calling thread until it returns: while a call is
\* inside time.sleep nothing else on its thread runs.
Runnable(i) ==
    \A j \in Invs \ {i} : ~(SameThread(i, j) /\ frames[j].pc = "sleeping")

\* the values random.uniform(*jitter) can return for this policy
Draws(p) == IF IsTuple(p.jitter) THEN Uniform(p.jitter[1], p.jitter[2]) ELSE {0}

\* ---------------------------------------------------------------- actions
\* retry_call_sync / retry_call_async / a decorated function is called:
\* enter the loop and run to the first call of f
Call(i) ==
    /\ i \in callers
    /\ frames[i].pc = "idle"
    /\ Runnable(i)
    /\ frames' = [frames EXCEPT ![i] =
          IF policy.is_async
          THEN retry_internal_async_loop(
                  retry_internal_async_init(policy, retry_call_async(policy, @)))
          ELSE retry_internal_sync_loop(
                  retry_internal_sync_init(policy, retry_call_sync(policy, @)))]
    /\ UNCHANGED <<policy, callers, env>>

\* f returns a value
OpReturn(i) ==
    /\ frames[i].pc = "awaiting"
    /\ Runnable(i)
    /\ \E v \in Values :
         /\ env' = [env EXCEPT ![i].returned = v, ![i].returnedAt = frames[i].hits]
         /\ frames' = [frames EXCEPT ![i] =
               IF policy.is_async
               THEN retry_internal_async_return(@, v)
               ELSE retry_internal_sync_return(@, v)]
    /\ UNCHANGED <<policy, callers>>

\* f raises; the logger, if the except clause calls it, returns or raises
OpRaise(i) ==
    /\ frames[i].pc = "awaiting"
    /\ Runnable(i)
    /\ \E k \in OpKinds, obs \in {"ok"} \cup ObserverKinds :
         LET x == Exc(k, "f", frames[i].hits) IN
         /\ frames' = [frames EXCEPT ![i] =
               IF policy.is_async
               THEN retry_internal_async_except(policy, @, x, obs)
               ELSE retry_internal_sync_except(policy, @, x, obs)]
         /\ env' = [env EXCEPT ![i].raised = x,
                               ![i].fatal =
                                  IF @ = NoExc /\ ~Retryable(k)
                                  THEN x ELSE @,
                               ![i].obsRaised =
                                  IF frames'[i].logCount > frames[i].logCount
                                  THEN (IF obs = "ok" THEN "" ELSE obs)
                                  ELSE @]
    /\ UNCHANGED <<policy, callers>>

\* time.sleep returns
Wake(i) ==
    /\ frames[i].pc = "sleeping"
    /\ Runnable(i)
    /\ frames[i].hits < MaxHits
    /\ \E u \in Draws(policy) :
         frames' = [frames EXCEPT ![i] =
            IF policy.is_async
            THEN retry_internal_async_resume(policy, @, u)
            ELSE retry_internal_sync_resume(policy, @, u)]
    /\ UNCHANGED <<policy, callers, env>>

Next == \E i \in Invs : Call(i) \/ OpReturn(i) \/ OpRaise(i) \/ Wake(i)

\* one call of a retrying function, any policy
Init ==
    /\ policy \in Policies
    /\ callers = {1}
    /\ frames = [i \in Invs |-> Frame0]
    /\ env = [i \in Invs |-> Env0]

Spec == Init /\ [][Next]_vars

\* NumInv concurrent calls of one decorated function
ConcPolicies ==
    {p \in Policies :
        /\ p.exceptions = {"ArithmeticError"}
        /\ p.tries \in {IntT(2), IntT(3)}
        /\ p.delay >= 0
        /\ p.max_delay = None
        /\ ~IsTuple(p.jitter)
        /\ p.logger = "logging_logger"}

InitConc ==
    /\ policy \in ConcPolicies
    /\ callers = Invs
    /\ frames = [i \in Invs |-> Frame0]
    /\ env = [i \in Invs |-> Env0]

SpecConc == InitConc /\ [][Next]_vars

\* ------------------------------------------------- sync and async, paired
\* Call 1 runs __retry_internal_sync and call 2 __retry_internal_async, on
\* their own threads, under one policy; f, the logger and random.uniform do
\* the same for both, step by step.
PairCall ==
    /\ frames[1].pc = "idle"
    /\ frames' = [frames EXCEPT
          ![1] = retry_internal_sync_loop(
                    retry_internal_sync_init(policy, retry_call_sync(policy, @))),
          ![2] = retry_internal_async_loop(
                    retry_internal_async_init(policy, retry_call_async(policy, @)))]
    /\ UNCHANGED <<policy, callers, env>>

\* f returns the same value to both
PairReturn ==
    /\ frames[1].pc = "awaiting"
    /\ \E v \in Values :
         /\ frames' = [frames EXCEPT
               ![1] = retry_internal_sync_return(@, v),
               ![2] = retry_internal_async_return(@, v)]
         /\ env' = [env EXCEPT
               ![1].returned = v, ![1].returnedAt = frames[1].hits,
               ![2].returned = v, ![2].returnedAt = frames[2].hits]
    /\ UNCHANGED <<policy, callers>>

\* f raises the same exception in both; the logger does the same for both
PairRaise ==
    /\ frames[1].pc = "awaiting"
    /\ \E k \in OpKinds, obs \in {"ok"} \cup ObserverKinds :
         LET x == Exc(k, "f", frames[1].hits) IN
         /\ frames' = [frames EXCEPT
               ![1] = retry_internal_sync_except(policy, @, x, obs),
               ![2] = retry_internal_async_except(policy, @, x, obs)]
         /\ env' = [i \in Invs |->
               IF i \notin {1, 2} THEN env[i]
               ELSE [env[i] EXCEPT
                       !.raised = x,
                       !.fatal = IF @ = NoExc /\ ~Retryable(k) THEN x ELSE @,
                       !.obsRaised =
                          IF frames'[i].logCount > frames[i].logCount
                          THEN (IF obs = "ok" THEN "" ELSE obs)
                          ELSE @]]
    /\ UNCHANGED <<policy, callers>>

\* time.sleep returns in both; random.uniform returns the same to both
PairWake ==
    /\ frames[1].pc = "sleeping"
    /\ frames[1].hits < MaxHits
    /\ \E u \in Draws(policy) :
         frames' = [frames EXCEPT
            ![1] = retry_internal_sync_resume(policy, @, u),
            ![2] = retry_internal_async_resume(policy, @, u)]
    /\ UNCHANGED <<policy, callers, env>>

NextPair == PairCall \/ PairReturn \/ PairRaise \/ PairWake

InitPair ==
    /\ policy \in {p \in Policies : ~p.is_async}
    /\ callers = {1, 2}
    /\ frames = [i \in Invs |-> Frame0]
    /\ env = [i \in Invs |-> Env0]

SpecPair == InitPair /\ [][NextPair]_vars

\* ------------------------------------------------ one call that is served
\* a finite budget tries = N >= 1 and durations time.sleep accepts
FairPolicies ==
    {p \in Policies :
        /\ ~p.tries.inf /\ p.tries.n >= 1
        /\ p.delay >= 0
        /\ p.max_delay = None
        /\ p.backoff = 1
        /\ p.jitter \in {<<0>>, <<0, 1>>}}

InitFair ==
    /\ policy \in FairPolicies
    /\ callers = {1}
    /\ frames = [i \in Invs |-> Frame0]
    /\ env = [i \in Invs |-> Env0]

\* The caller makes its call, every call of f comes back (with a value or an
\* exception) and every time.sleep returns.
SpecFair ==
    /\ InitFair
    /\ [][Next]_vars
    /\ \A i \in Invs :
          /\ WF_vars(Call(i))
          /\ WF_vars(OpReturn(i) \/ OpRaise(i))
          /\ WF_vars(Wake(i))

\* the arguments a caller gives for f: fargs and fkwargs, each None, empty
\* or not
FArgs == {None, Some(<<>>), Some(<<"-1">>), Some(<<"-1", "7">>)}
FKwargs == {None, Some({}), Some({<<"value", "-1">>}),
            Some({<<"value", "-1">>, <<"other", "7">>})}

\* one call with arguments for f, under a policy that retries at once
ArgPolicies ==
    [is_async : BOOLEAN,
     exceptions : {{"Exception"}},
     tries : {IntT(1), IntT(2), IntT(3)},
     delay : {0},
     max_delay : {None},
     backoff : {1},
     jitter : {<<0>>},
     logger : {"None", "logging_logger"},
     fargs : FArgs,
     fkwargs : FKwargs]

InitArgs ==
    /\ policy \in ArgPolicies
    /\ callers = {1}
    /\ frames = [i \in Invs |-> Frame0]
    /\ env = [i \in Invs |-> Env0]

SpecArgs == InitArgs /\ [][Next]_vars

\* ------------------------------------------------------------ properties
\* the policy's budget is a finite number of attempts N >= 1
Finite(p) == ~p.tries.inf /\ p.tries.n >= 1

\* the policy's budget is unlimited: tries = -1 or tries = float("inf")
Unbounded(p) == p.tries.inf \/ p.tries.n = -1

\* the policy's durations are those of a retry policy: no negative delay,
\* multiplier, ceiling or jitter, and no inverted jitter range
WellFormed(p) ==
    /\ p.delay >= 0
    /\ p.backoff >= 0
    /\ p.max_delay # None => p.max_delay[1] >= 0
    /\ IF IsTuple(p.jitter)
       THEN 0 <= p.jitter[1] /\ p.jitter[1] <= p.jitter[2]
       ELSE p.jitter[1] >= 0

Terminal(fr) == fr.pc \in {"returned", "raised"}

\* the budget left after m retryable failures
TriesAfter(t, m) == IF t.inf THEN t ELSE IntT(t.n - m)

\* the number of logger calls when every one of m failures was logged
Logged(p, m) == IF p.logger # "None" THEN m ELSE 0

\* C1: with a finite budget of N attempts, a call whose f raised a retryable
\* exception every time it was called (and whose logger and sleeps returned)
\* ends only after exactly N calls of f and N - 1 sleeps, by propagating the
\* very exception the Nth call of f raised.
C1_ExhaustedAfterNCalls ==
    \A i \in Invs :
      LET fr == frames[i]
          ev == env[i]
      IN (/\ Finite(policy) /\ WellFormed(policy) /\ Terminal(fr)
          /\ ev.returned = "" /\ ev.fatal = NoExc /\ ev.obsRaised = "")
         => /\ fr.result = Raised(ev.raised)
            /\ ev.raised.n = policy.tries.n
            /\ fr.hits = policy.tries.n
            /\ Len(fr.waits) = policy.tries.n - 1

C1_Witness ==
    \E i \in Invs :
      /\ Finite(policy) /\ WellFormed(policy) /\ policy.tries.n >= 3
      /\ frames[i].pc = "raised" /\ frames[i].hits = policy.tries.n
      /\ env[i].fatal = NoExc /\ env[i].obsRaised = ""

\* C2: with a finite budget, once f has returned a value on its kth call the
\* retry call has returned exactly that value, f has been called exactly k
\* times, and the sleeps and logger calls are the k - 1 made before that call.
C2_ReturnsFirstSuccess ==
    \A i \in Invs :
      LET fr == frames[i]
          ev == env[i]
      IN (Finite(policy) /\ ev.returned # "")
         => /\ fr.pc = "returned"
            /\ fr.result = Returned(ev.returned)
            /\ ev.returnedAt <= policy.tries.n
            /\ fr.hits = ev.returnedAt
            /\ Len(fr.waits) = ev.returnedAt - 1
            /\ fr.logCount = Logged(policy, ev.returnedAt - 1)

C2_Witness ==
    \E i \in Invs :
      /\ Finite(policy) /\ env[i].returnedAt = 3
      /\ frames[i].pc = "returned" /\ frames[i].hits = 3

\* C3: with tries = -1 or tries = inf the call never ends by propagating a
\* retryable exception of f; once f has returned on its kth call the retry
\* call has returned that value after exactly k calls; and (logger and sleeps
\* returning) the call ends only by f returning or f raising an exception
\* outside `exceptions`.
C3_UnboundedNeverExhausted ==
    \A i \in Invs :
      LET fr == frames[i]
          ev == env[i]
      IN Unbounded(policy)
         => /\ ev.returned # ""
               => /\ fr.pc = "returned"
                  /\ fr.result = Returned(ev.returned)
                  /\ fr.hits = ev.returnedAt
            /\ (fr.result.tag = "raise" /\ fr.result.exc.src = "f")
               => (ev.fatal # NoExc /\ fr.result.exc = ev.fatal)
            /\ (Terminal(fr) /\ WellFormed(policy) /\ ev.obsRaised = "")
               => (ev.returned # "" \/ ev.fatal # NoExc)

C3_Witness ==
    \E i \in Invs :
      /\ policy.tries.inf
      /\ frames[i].pc = "returned" /\ frames[i].hits = MaxHits
      /\ env[i].returnedAt = MaxHits

\* C4: once f has raised an exception of a class outside `exceptions` (on
\* its nth call), the retry call has ended by propagating that exception
\* object: the budget is still the one left by the n - 1 earlier failures, the
\* logger was not called for it, no sleep followed, f was not called again.
C4_FatalPropagatesAtOnce ==
    \A i \in Invs :
      LET fr == frames[i]
          ev == env[i]
          n == ev.fatal.n
      IN ev.fatal # NoExc
         => /\ fr.pc = "raised"
            /\ fr.result = Raised(ev.fatal)
            /\ fr.hits = n
            /\ fr._tries = TriesAfter(policy.tries, n - 1)
            /\ fr.logCount = Logged(policy, n - 1)
            /\ fr.lastLog.e # ev.fatal
            /\ Len(fr.waits) = n - 1

C4_Witness ==
    \E i \in Invs :
      /\ env[i].fatal # NoExc /\ env[i].fatal.n >= 2
      /\ frames[i].pc = "raised" /\ policy.logger # "None"

\* a policy the data model excludes: a non-positive budget other than the -1
\* sentinel, a negative delay, or a jitter range with min > max
InvalidConfig(p) ==
    \/ ~p.tries.inf /\ p.tries.n <= 0 /\ p.tries.n # -1
    \/ p.delay < 0
    \/ IsTuple(p.jitter) /\ p.jitter[1] > p.jitter[2]

\* C5: a policy with tries = 0, a negative delay or a jitter range with
\* min > max is rejected with a configuration error before anything runs: no
\* call made with it enters the loop, calls f, sleeps, returns, or fails with
\* an error that is not the configuration error.
C5_InvalidPolicyRejected ==
    \A i \in Invs :
      InvalidConfig(policy)
      => /\ frames[i].hits = 0
         /\ frames[i].pc \in {"idle", "raised"}
         /\ frames[i].pc = "raised" => frames[i].result.exc.src = "config"

\* C6: while one async call is inside its wait, another call on the same
\* event loop that has not finished can still take a step (start, or
\* receive the result of the f it awaits).
C6_WaitSuspendsOnlyItsCall ==
    \A a \in callers, b \in callers :
      (/\ a # b /\ policy.is_async
       /\ frames[a].pc = "sleeping"
       /\ frames[b].pc \in {"idle", "awaiting"})
      => ENABLED (Call(b) \/ OpReturn(b))

\* the number of calls of f that have ended in a retryable failure with
\* attempts left, i.e. for which the loop went (or is going) on to the wait
Retried(i) ==
    IF \/ frames[i].pc = "sleeping"
       \/ env[i].obsRaised # ""
       \/ frames[i].result.exc.src = "sleep"
    THEN frames[i].hits
    ELSE IF frames[i].hits = 0 THEN 0 ELSE frames[i].hits - 1

\* C7: the logger is called exactly once for every retryable failure that
\* leaves attempts (never for a success, a non-retryable failure or the
\* exhausting failure, and never when logger is None), before the wait, with
\* the exception f just raised and the not yet updated _delay, which is the
\* duration of the sleep that follows.
C7_ObserverOncePerRetry ==
    \A i \in Invs :
      LET fr == frames[i]
          ev == env[i]
      IN /\ fr.logCount = Logged(policy, Retried(i))
         /\ (policy.logger # "None" /\ fr.pc = "sleeping")
            => /\ fr.lastLog.e = ev.raised
               /\ fr.lastLog.delay = fr._delay
               /\ fr.lastLog.delay = fr.waits[Len(fr.waits)]
               /\ Len(fr.waits) = fr.logCount
         /\ (fr.logCount > 0 /\ fr.pc # "raised")
            => /\ fr.lastLog.e.n = Len(fr.waits)
               /\ fr.lastLog.delay = fr.waits[Len(fr.waits)]

C7_Witness ==
    \E i \in Invs :
      /\ frames[i].pc = "sleeping" /\ frames[i].logCount >= 2
      /\ frames[i].lastLog.delay # policy.delay

\* C8: once the logger has raised, the retry call has ended by propagating
\* the logger's exception, whether or not its class is in `exceptions`: no
\* sleep was made for that failure, _delay still has the value the logger
\* was given, and f was not called again.
C8_ObserverErrorAborts ==
    \A i \in Invs :
      LET fr == frames[i]
          ev == env[i]
      IN ev.obsRaised # ""
         => /\ fr.pc = "raised"
            /\ fr.result = Raised(Exc(ev.obsRaised, "logger", fr.hits))
            /\ fr.hits = ev.raised.n
            /\ fr.lastLog.e = ev.raised
            /\ fr._delay = fr.lastLog.delay
            /\ Len(fr.waits) = fr.hits - 1

C8_Witness ==
    \E i \in Invs :
      /\ env[i].obsRaised # "" /\ Retryable(env[i].obsRaised)
      /\ Finite(policy) /\ frames[i]._tries.n >= 1
      /\ frames[i].pc = "raised" /\ frames[i].hits >= 2

\* f raised a retryable exception on every call, the logger and the sleeps
\* returned, and the call has ended
AlwaysFailed(i) ==
    /\ Terminal(frames[i])
    /\ env[i].returned = "" /\ env[i].fatal = NoExc /\ env[i].obsRaised = ""

RECURSIVE Pow(_, _)
Pow(b, n) == IF n = 0 THEN 1 ELSE b * Pow(b, n - 1)

\* d * b^0 + ... + d * b^(m-1)
RECURSIVE GeometricSum(_, _, _)
GeometricSum(d, b, m) ==
    IF m = 0 THEN 0 ELSE GeometricSum(d, b, m - 1) + d * Pow(b, m - 1)

\* C9: with jitter 0, no max_delay and a finite budget of N attempts, the
\* i-th sleep (i = 0 .. N-2) lasts delay * backoff^i, and when f has failed
\* on all N calls the sleeps add up to the sum of delay * backoff^i over
\* i = 0 .. N-2.
C9_GeometricWaits ==
    \A i \in Invs :
      LET fr == frames[i] IN
      (/\ Finite(policy) /\ WellFormed(policy)
       /\ policy.jitter = <<0>> /\ policy.max_delay = None)
      => /\ \A j \in 1..Len(fr.waits) :
              fr.waits[j] = policy.delay * Pow(policy.backoff, j - 1)
         /\ AlwaysFailed(i)
            => /\ Len(fr.waits) = policy.tries.n - 1
               /\ SumSeq(fr.waits) =
                     GeometricSum(policy.delay, policy.backoff, policy.tries.n - 1)

C9_Witness ==
    \E i \in Invs :
      /\ policy.tries = IntT(5) /\ policy.delay = 1 /\ policy.backoff = 2
      /\ policy.jitter = <<0>> /\ policy.max_delay = None
      /\ AlwaysFailed(i)
      /\ SumSeq(frames[i].waits) = 15

\* C10 as stated: with max_delay = delay and a finite budget of N attempts,
\* when f has failed on all N calls the sleeps add up to delay * (N - 1),
\* whatever the (non-negative) backoff.
C10_CappedTotalAnyBackoff ==
    \A i \in Invs :
      (/\ Finite(policy) /\ WellFormed(policy)
       /\ policy.max_delay = Some(policy.delay)
       /\ AlwaysFailed(i))
      => SumSeq(frames[i].waits) = policy.delay * (policy.tries.n - 1)

\* C10 amended: the same for every backoff >= 1; every sleep then lasts
\* exactly delay.
C10_CappedTotal ==
    \A i \in Invs :
      (/\ Finite(policy) /\ WellFormed(policy)
       /\ policy.max_delay = Some(policy.delay)
       /\ policy.backoff >= 1)
      => /\ \A j \in 1..Len(frames[i].waits) : frames[i].waits[j] = policy.delay
         /\ AlwaysFailed(i)
            => SumSeq(frames[i].waits) = policy.delay * (policy.tries.n - 1)

C10_Witness ==
    \E i \in Invs :
      /\ policy.tries = IntT(5) /\ policy.delay = 1 /\ policy.backoff = 2
      /\ policy.max_delay = Some(1)
      /\ AlwaysFailed(i)
      /\ SumSeq(frames[i].waits) = 4

\* 0 + 1 + ... + m
Triangle(m) == (m * (m + 1)) \div 2

\* C11: with a fixed jitter j, backoff 1, delay 0, no max_delay and a finite
\* budget of N attempts, the i-th sleep (i = 0 .. N-2) lasts i * j, and when f
\* has failed on all N calls the sleeps add up to j * (0 + 1 + ... + (N-2)).
C11_FixedJitterWaits ==
    \A i \in Invs :
      LET fr == frames[i] IN
      (/\ Finite(policy) /\ ~IsTuple(policy.jitter) /\ policy.jitter[1] >= 0
       /\ policy.backoff = 1 /\ policy.delay = 0 /\ policy.max_delay = None)
      => /\ \A j \in 1..Len(fr.waits) : fr.waits[j] = (j - 1) * policy.jitter[1]
         /\ AlwaysFailed(i)
            => /\ Len(fr.waits) = policy.tries.n - 1
               /\ SumSeq(fr.waits) = policy.jitter[1] * Triangle(policy.tries.n - 2)

C11_Witness ==
    \E i \in Invs :
      /\ policy.tries = IntT(5) /\ policy.jitter = <<1>>
      /\ policy.backoff = 1 /\ policy.delay = 0 /\ policy.max_delay = None
      /\ AlwaysFailed(i)
      /\ frames[i].waits = <<0, 1, 2, 3>>

\* C12: when max_delay is set, every sleep of the call, the first one
\* included, lasts at most max_delay.
C12_EveryWaitWithinMaxDelay ==
    \A i \in Invs :
      (/\ WellFormed(policy) /\ (Finite(policy) \/ Unbounded(policy))
       /\ policy.max_delay # None)
      => \A j \in 1..Len(frames[i].waits) :
            frames[i].waits[j] <= policy.max_delay[1]

\* the sleeps of a frame that have returned
CompletedWaits(fr) == Len(fr.waits) - (IF fr.pc = "sleeping" THEN 1 ELSE 0)

\* one step of call i keeps the order attempt, failure, wait, attempt
Ordered(i) ==
    LET fr == frames[i]
        nx == frames'[i]
    IN /\ nx.hits \in {fr.hits, fr.hits + 1}
       /\ Len(nx.waits) \in {Len(fr.waits), Len(fr.waits) + 1}
       /\ nx.hits = fr.hits + 1
          => /\ fr.pc \in {"idle", "sleeping"}
             /\ nx.pc = "awaiting"
             /\ Len(nx.waits) = Len(fr.waits)
             /\ fr.pc = "sleeping" => (fr.e.n = fr.hits /\ Retryable(fr.e.kind))
       /\ Len(nx.waits) = Len(fr.waits) + 1
          => /\ fr.pc = "awaiting"
             /\ nx.pc = "sleeping"
             /\ nx.hits = fr.hits
             /\ env'[i].raised.n = fr.hits
             /\ Retryable(env'[i].raised.kind)
       /\ nx.hits = 0 => nx.waits = <<>>
       /\ nx.hits >= 1 => CompletedWaits(nx) = nx.hits - 1

\* C16: within one call nothing is slept before the first call of f; a
\* further call of f starts only out of a finished sleep, which itself was
\* started by a retryable failure of the call of f before it, so that once f
\* has been called the finished sleeps number the calls of f minus one, and
\* no call of f starts while another is in flight.
C16_AttemptsAndWaitsAlternate == [][\A i \in Invs : Ordered(i)]_vars

C16_Witness ==
    \E i \in Invs :
      /\ frames[i].pc = "awaiting" /\ frames[i].hits = 4
      /\ Len(frames[i].waits) = 3

\* the jitter terms the policy allows
JitterSamples(p) ==
    IF IsTuple(p.jitter) THEN p.jitter[1]..p.jitter[2] ELSE {p.jitter[1]}

\* min(d, max_delay), or d when max_delay is None
Capped(p, d) ==
    IF p.max_delay = None THEN d
    ELSE IF d <= p.max_delay[1] THEN d ELSE p.max_delay[1]

\* one step of call i changes _delay only as the update rule says
DelayRule(i) ==
    LET fr == frames[i]
        nx == frames'[i]
    IN /\ (fr.pc = "idle" /\ nx.pc # "idle") => nx._delay = policy.delay
       /\ (fr.pc = "sleeping" /\ nx.pc # "sleeping")
          => \E s \in JitterSamples(policy) :
                nx._delay = Capped(policy, fr._delay * policy.backoff + s)
       /\ ~(fr.pc = "idle" /\ nx.pc # "idle")
          /\ ~(fr.pc = "sleeping" /\ nx.pc # "sleeping")
          => nx._delay = fr._delay
       /\ policy.backoff = 0
          => \A j \in 2..Len(nx.waits) :
                \E s \in JitterSamples(policy) : nx.waits[j] = Capped(policy, s)

\* C17: _delay starts at delay and changes only when a sleep has returned,
\* once, to min(_delay * backoff + jitter sample, max_delay) (no min when
\* max_delay is None), the sample being the fixed jitter or a value of the
\* range; so with backoff 0 every sleep after the first lasts the (capped)
\* jitter term.
C17_DelayUpdateRule ==
    [][WellFormed(policy) => \A i \in Invs : DelayRule(i)]_vars

C17_Witness ==
    \E i \in Invs :
      /\ WellFormed(policy) /\ policy.backoff = 0 /\ policy.delay = 1
      /\ IsTuple(policy.jitter) /\ policy.max_delay = None
      /\ frames[i].waits = <<1, 0, 1>>
      /\ frames[i].pc = "awaiting"

\* the retryable failures of f the loop has caught so far
FailuresSeen(i) ==
    IF frames[i].hits = 0 THEN 0
    ELSE IF \/ frames[i].pc = "awaiting"
            \/ env[i].returned # ""
            \/ env[i].fatal # NoExc
    THEN frames[i].hits - 1
    ELSE frames[i].hits

\* C19: every negative tries is an unlimited budget: _tries moves away from
\* zero by one per retryable failure, the call never ends by propagating a
\* retryable exception of f, and while f only fails with retryable
\* exceptions (logger and sleeps returning) the call does not end.
C19_NegativeTriesUnlimited ==
    \A i \in Invs :
      LET fr == frames[i]
          ev == env[i]
      IN (~policy.tries.inf /\ policy.tries.n < 0)
         => /\ fr.pc # "idle"
               => /\ fr._tries.n = policy.tries.n - FailuresSeen(i)
                  /\ fr._tries.n < 0
                  /\ fr.hits >= 1
            /\ (fr.result.tag = "raise" /\ fr.result.exc.src = "f")
               => (ev.fatal # NoExc /\ fr.result.exc = ev.fatal)
            /\ (/\ WellFormed(policy)
                /\ ev.returned = "" /\ ev.fatal = NoExc /\ ev.obsRaised = "")
               => ~Terminal(fr)

C19_Witness ==
    \E i \in Invs :
      /\ policy.tries = IntT(-2)
      /\ frames[i].pc = "awaiting" /\ frames[i].hits = MaxHits
      /\ frames[i]._tries.n = (-1) - MaxHits
      /\ env[i].fatal = NoExc

\* C20: a call that has returned has called f at least once and returns the
\* value f returned on its last call.
C20_ReturnNeedsACall ==
    \A i \in Invs :
      frames[i].pc = "returned"
      => /\ frames[i].hits >= 1
         /\ env[i].returnedAt = frames[i].hits
         /\ frames[i].result = Returned(env[i].returned)

\* the duration of the kth sleep of a call that runs alone (fixed jitter)
RECURSIVE SoloDelay(_, _)
SoloDelay(p, k) ==
    IF k <= 1 THEN p.delay
    ELSE Capped(p, SoloDelay(p, k - 1) * p.backoff + p.jitter[1])

\* how a call that runs alone ends, given what its own f and logger did
SoloOutcome(i) ==
    IF env[i].returned # "" THEN Returned(env[i].returned)
    ELSE IF env[i].fatal # NoExc THEN Raised(env[i].fatal)
    ELSE IF env[i].obsRaised # ""
    THEN Raised(Exc(env[i].obsRaised, "logger", frames[i].hits))
    ELSE Raised(env[i].raised)

\* C13: under every interleaving of the concurrent calls of one decorated
\* function, each call starts from _tries = tries and _delay = delay, and
\* its budget, its sleeps, its number of calls of f and its outcome are
\* those of a call running alone: functions of the policy and of what its
\* own f and its own logger did, whatever the other calls have done.
C13_CallsOwnTheirState ==
    \A i \in Invs :
      LET fr == frames[i] IN
      fr.pc # "idle"
      => /\ fr._tries = TriesAfter(policy.tries, FailuresSeen(i))
         /\ fr._delay = SoloDelay(policy, CompletedWaits(fr) + 1)
         /\ \A j \in 1..Len(fr.waits) : fr.waits[j] = SoloDelay(policy, j)
         /\ fr.hits = 1 /\ fr.pc = "awaiting"
            => (fr._tries = policy.tries /\ fr._delay = policy.delay)
         /\ Finite(policy) => fr.hits <= policy.tries.n
         /\ Terminal(fr)
            => /\ fr.result = SoloOutcome(i)
               /\ Len(fr.waits) = fr.hits - 1
               /\ (env[i].returned = "" /\ env[i].fatal = NoExc
                   /\ env[i].obsRaised = "")
                  => fr.hits = policy.tries.n

C13_Witness ==
    /\ policy.is_async /\ policy.tries = IntT(3)
    /\ policy.delay = 1 /\ policy.backoff = 2 /\ policy.jitter = <<1>>
    /\ frames[1].pc = "sleeping" /\ frames[1].waits = <<1, 3>>
    /\ frames[1]._tries = IntT(1)
    /\ frames[2].pc = "awaiting" /\ frames[2].hits = 1
    /\ frames[2]._tries = IntT(3) /\ frames[2]._delay = 1

\* what f is to receive: the given arguments, None standing for none
GivenArgs(p) ==
    [args |-> IF p.fargs = None THEN <<>> ELSE p.fargs[1],
     kwargs |-> IF p.fkwargs = None THEN {} ELSE p.fkwargs[1]]

\* C15: every call of f made by a retry call receives exactly the positional
\* and keyword arguments given as fargs / fkwargs (none where None was
\* given), there is one such call per attempt, and when f returns on its
\* first call it has been called exactly once.
C15_ArgumentsReachF ==
    \A i \in Invs :
      LET fr == frames[i] IN
      /\ Len(fr.calls) = fr.hits
      /\ \A j \in 1..Len(fr.calls) : fr.calls[j] = GivenArgs(policy)
      /\ env[i].returnedAt = 1 => (fr.pc = "returned" /\ Len(fr.calls) = 1)

C15_Witness ==
    \E i \in Invs :
      /\ policy.is_async
      /\ policy.fargs = Some(<<"-1">>)
      /\ policy.fkwargs = Some({<<"value", "-1">>, <<"other", "7">>})
      /\ Len(frames[i].calls) = 3
      /\ frames[i].calls[3] = [args |-> <<"-1">>,
                               kwargs |-> {<<"value", "-1">>, <<"other", "7">>}]
      /\ frames[i].pc = "returned"

\* C14: fed the same policy, the same outcomes of f and of the logger and
\* the same jitter samples, the sync and the async loop are at every step in
\* the same state: same calls of f, same logger calls with the same
\* arguments, same sleeps, same budget and delay, same returned value or
\* propagated exception.
C14_SyncAsyncAgree == frames[1] = frames[2]

C14_Witness ==
    /\ policy.delay = 1 /\ policy.backoff = 2 /\ policy.jitter = <<0, 1>>
    /\ policy.max_delay = None
    /\ frames[1].pc = "raised" /\ frames[2].pc = "raised"
    /\ frames[1].hits = 3 /\ frames[2].waits = <<1, 3>>
    /\ frames[2].logCount = 2 /\ frames[1].lastLog.delay = 3
    /\ frames[2].result.exc.src = "f"

\* the three ways a run ends
Success(i) ==
    /\ frames[i].pc = "returned" /\ env[i].returned # ""
    /\ frames[i].result = Returned(env[i].returned)
Exhausted(i) ==
    /\ frames[i].pc = "raised" /\ env[i].fatal = NoExc
    /\ frames[i].result = Raised(env[i].raised)
    /\ frames[i]._tries = IntT(0)
Fatal(i) ==
    /\ frames[i].pc = "raised" /\ env[i].fatal # NoExc
    /\ frames[i].result = Raised(env[i].fatal)

\* the bookkeeping of a finite budget N
BudgetKept(i) ==
    frames[i].pc # "idle"
    => /\ frames[i].hits <= policy.tries.n
       /\ frames[i]._tries = IntT(policy.tries.n - FailuresSeen(i))
       /\ frames[i]._tries.n >= 0
       /\ (Terminal(frames[i]) /\ env[i].obsRaised = "")
          => /\ Success(i) \/ Exhausted(i) \/ Fatal(i)
             /\ ~(Success(i) /\ Exhausted(i))
             /\ ~(Success(i) /\ Fatal(i))
             /\ ~(Exhausted(i) /\ Fatal(i))

\* C18: with a finite budget tries = N >= 1, every call of f coming back and
\* every sleep returning, the retry call ends; f is called at most N times;
\* _tries is always N minus the retryable failures caught so far and never
\* negative; and, the logger having returned from its calls, the call ends
\* in exactly one of: f's value returned, the budget exhausted, an exception
\* outside `exceptions` propagated.
C18_FiniteBudgetTerminates ==
    /\ [](\A i \in callers : BudgetKept(i))
    /\ <>(\A i \in callers : Terminal(frames[i]))

C18_Witness ==
    \E i \in callers :
      /\ policy.tries = IntT(3) /\ Success(i)
      /\ frames[i].hits = 3 /\ frames[i]._tries = IntT(1)
      /\ Len(frames[i].waits) = 2

====
